---- MODULE Spec2Model ----
(***************************************************************************)
(* A model of the excel-viewer front end.                                  *)
(*                                                                         *)
(*   - SimpleExcelViewer (grid-table viewer): React state sheets,          *)
(*     activeSheetIndex, isLoading, error, showFormulas, the asynchronous  *)
(*     loadExcelFile, and the event handlers of the rendered grid.         *)
(*   - getColumnLabel, stepped through its while loop.                     *)
(*   - ExcelViewer (rich-grid viewer): loadExcelFile, initializeLuckysheet *)
(*     and the deferred window.luckysheet.create call.                     *)
(*                                                                         *)
(* JavaScript values are tagged records (JStr, JNum, ...), strings are     *)
(* sequences of string pieces (single characters where the code slices or  *)
(* builds them) so that slicing and concatenation are computed, optional   *)
(* objects are sequences of length 0 or 1, and arrays are sequences whose  *)
(* entries may be holes.                                                   *)
(*                                                                         *)
(* State updates made in one synchronous stretch of code (up to an await,  *)
(* or a whole event handler) are committed together, as React 18 batches   *)
(* them; an await ends an action.                                          *)
(***************************************************************************)
EXTENDS Integers, Sequences, FiniteSets, TLC

VARIABLES
    \* App
    selectedFile,
    \* SimpleExcelViewer
    sheets, activeSheetIndex, isLoading, error, showFormulas,
    inFlight, nSelected, nEdits, lastOp,
    \* getColumnLabel
    index, num, label,
    \* ExcelViewer
    xvFile, xvIsLoading, xvError, debugInfo, luckysheetRef, windowLuckysheet,
    xvInFlight, timers, created, xvSelected, xvLast

appVars == <<selectedFile>>
svVars == <<sheets, activeSheetIndex, isLoading, error, showFormulas,
            inFlight, nSelected, nEdits, lastOp>>
labelVars == <<index, num, label>>
xvVars == <<xvFile, xvIsLoading, xvError, debugInfo, luckysheetRef,
            windowLuckysheet, xvInFlight, timers, created, xvSelected, xvLast>>
vars == <<appVars, svVars, labelVars, xvVars>>

-----------------------------------------------------------------------------
(* Bounds of the model.                                                    *)

\* file selections per run
MaxSelections == 2
\* cell edits per run
MaxEdits == 2
\* file selections per run of SpecLate
MaxLateSelections == 3
\* getColumnLabel is run on 0..MaxIndex
MaxIndex == 704

-----------------------------------------------------------------------------
(* JavaScript values.                                                      *)

JUndef == [k |-> "undefined", s |-> <<>>, n |-> 0, b |-> FALSE]
JNull == [k |-> "null", s |-> <<>>, n |-> 0, b |-> FALSE]
JStr(str) == [k |-> "str", s |-> str, n |-> 0, b |-> FALSE]
JNum(x) == [k |-> "num", s |-> <<>>, n |-> x, b |-> FALSE]
JBool(x) == [k |-> "bool", s |-> <<>>, n |-> 0, b |-> x]

\* ToBoolean
Truthy(x) ==
    \/ x.k = "str" /\ x.s # <<>>
    \/ x.k = "num" /\ x.n # 0
    \/ x.k = "bool" /\ x.b

\* a || b
Or(a, b) == IF Truthy(a) THEN a ELSE b

Digits == <<"0", "1", "2", "3", "4", "5", "6", "7", "8", "9">>

RECURSIVE NumStr(_)
\* the decimal digits of a natural number
NumStr(x) ==
    IF x < 10 THEN <<Digits[x + 1]>>
    ELSE NumStr(x \div 10) \o <<Digits[(x % 10) + 1]>>

\* String(x)
String(x) ==
    CASE x.k = "str" -> x.s
      [] x.k = "num" -> NumStr(x.n)
      [] x.k = "bool" -> IF x.b THEN <<"t", "r", "u", "e">>
                         ELSE <<"f", "a", "l", "s", "e">>
      [] x.k = "null" -> <<"n", "u", "l", "l">>
      [] OTHER -> <<"u", "n", "d", "e", "f", "i", "n", "e", "d">>

\* an absent object (undefined or null) and a present one
None == <<>>
Some(x) == <<x>>
Has(o) == o # <<>>
Get(o) == o[1]

Max2(a, b) == IF a >= b THEN a ELSE b

-----------------------------------------------------------------------------
(* Per-cell attribute extraction.                                          *)

\* color.rgb.slice(2), prefixed with '#'
RgbCss(rgb) == <<"#">> \o SubSeq(rgb, 3, Len(rgb))

indexedColors ==
    (64 :> <<"#", "0", "0", "0", "0", "0", "0">>) @@
    (9  :> <<"#", "f", "f", "f", "f", "f", "f">>) @@
    (10 :> <<"#", "f", "f", "0", "0", "0", "0">>) @@
    (11 :> <<"#", "0", "0", "f", "f", "0", "0">>) @@
    (12 :> <<"#", "0", "0", "0", "0", "f", "f">>) @@
    (13 :> <<"#", "f", "f", "f", "f", "0", "0">>) @@
    (14 :> <<"#", "f", "f", "0", "0", "f", "f">>) @@
    (15 :> <<"#", "0", "0", "f", "f", "f", "f">>) @@
    (43 :> <<"#", "9", "2", "d", "0", "5", "0">>) @@
    (44 :> <<"#", "0", "0", "b", "0", "f", "0">>) @@
    (45 :> <<"#", "0", "0", "7", "0", "c", "0">>) @@
    (46 :> <<"#", "0", "0", "2", "0", "6", "0">>)

getCellBackgroundColor(cell) ==
    IF Has(cell.s) /\ Has(Get(cell.s).fill) /\ Has(Get(Get(cell.s).fill).bgColor)
    THEN LET color == Get(Get(Get(cell.s).fill).bgColor) IN
         IF Truthy(color.rgb) THEN JStr(RgbCss(color.rgb.s))
         ELSE IF Truthy(color.indexed)
              THEN IF color.indexed.n \in DOMAIN indexedColors
                   THEN JStr(indexedColors[color.indexed.n])
                   ELSE JNull
              ELSE JNull
    ELSE JNull

getCellTextColor(cell) ==
    IF Has(cell.s) /\ Has(Get(cell.s).font) /\ Has(Get(Get(cell.s).font).color)
    THEN LET color == Get(Get(Get(cell.s).font).color) IN
         IF Truthy(color.rgb) THEN JStr(RgbCss(color.rgb.s)) ELSE JNull
    ELSE JNull

isCellBold(cell) ==
    IF Has(cell.s) /\ Has(Get(cell.s).font)
    THEN Get(Get(cell.s).font).bold ELSE JUndef

isCellItalic(cell) ==
    IF Has(cell.s) /\ Has(Get(cell.s).font)
    THEN Get(Get(cell.s).font).italic ELSE JUndef

getCellFontSize(cell) ==
    IF Has(cell.s) /\ Has(Get(cell.s).font) /\ Truthy(Get(Get(cell.s).font).sz)
    THEN JStr(String(Get(Get(cell.s).font).sz) \o <<"p", "x">>)
    ELSE JNull

getCellFontFamily(cell) ==
    IF Has(cell.s) /\ Has(Get(cell.s).font) /\ Truthy(Get(Get(cell.s).font).name)
    THEN Get(Get(cell.s).font).name
    ELSE JNull

getCellAlignment(cell) ==
    IF Has(cell.s) /\ Has(Get(cell.s).alignment)
    THEN LET a == Get(Get(cell.s).alignment) IN
         Some([horizontal |-> Or(a.horizontal, JStr(<<"l", "e", "f", "t">>)),
               vertical |-> Or(a.vertical, JStr(<<"m", "i", "d", "d", "l", "e">>))])
    ELSE None

getCellBorder(cell) ==
    IF Has(cell.s) /\ Has(Get(cell.s).border) THEN Get(cell.s).border ELSE None

\* the record built for a cell the worksheet holds
CellRecord(cell) ==
    [value |-> Or(Or(cell.w, cell.v), JStr(<<>>)),
     formula |-> Or(cell.f, JNull),
     type |-> Or(cell.t, JStr(<<"n">>)),
     style |-> cell.s,
     backgroundColor |-> getCellBackgroundColor(cell),
     textColor |-> getCellTextColor(cell),
     isBold |-> isCellBold(cell),
     isItalic |-> isCellItalic(cell),
     fontSize |-> getCellFontSize(cell),
     fontFamily |-> getCellFontFamily(cell),
     alignment |-> getCellAlignment(cell),
     border |-> getCellBorder(cell),
     originalCell |-> Some(cell)]

\* the record built for an address the worksheet does not hold, and by
\* handleCellChange for a grid cell without a record
DefaultRecord(value) ==
    [value |-> value,
     formula |-> JNull,
     type |-> JStr(<<"n">>),
     style |-> None,
     backgroundColor |-> JNull,
     textColor |-> JNull,
     isBold |-> JBool(FALSE),
     isItalic |-> JBool(FALSE),
     fontSize |-> JNull,
     fontFamily |-> JNull,
     alignment |-> None,
     border |-> None,
     originalCell |-> None]

-----------------------------------------------------------------------------
(* The files a user can select: what file.arrayBuffer() and XLSX.read give *)
(* for each.  A worksheet holds '!ref' (decoded to its end row and column, *)
(* absent for a sheet without cells) and the cells stored at addresses.    *)

StyleRich ==
    [fill |-> Some([bgColor |-> Some([rgb |-> JStr(<<"F", "F", "F", "F", "C", "0", "0", "0">>),
                                      indexed |-> JUndef])]),
     font |-> Some([color |-> Some([rgb |-> JStr(<<"F", "F", "0", "0", "0", "0", "F", "F">>)]),
                    bold |-> JBool(TRUE), italic |-> JUndef,
                    sz |-> JNum(12), name |-> JStr(<<"Arial">>)]),
     alignment |-> Some([horizontal |-> JStr(<<"center">>), vertical |-> JUndef]),
     border |-> Some([top |-> JStr(<<"thin">>)])]

StyleIndexed ==
    [fill |-> Some([bgColor |-> Some([rgb |-> JUndef, indexed |-> JNum(10)])]),
     font |-> Some([color |-> None, bold |-> JBool(FALSE), italic |-> JBool(TRUE),
                    sz |-> JUndef, name |-> JUndef]),
     alignment |-> None,
     border |-> None]

\* a number cell with its formatted text
CellNumber ==
    [w |-> JStr(<<"5">>), v |-> JNum(5), f |-> JUndef, t |-> JStr(<<"n">>), s |-> None]
\* a styled formula cell
CellFormula ==
    [w |-> JStr(<<"7">>), v |-> JNum(7), f |-> JStr(<<"A", "1", "+", "2">>),
     t |-> JStr(<<"n">>), s |-> Some(StyleRich)]
\* a number cell without formatted text
CellRaw ==
    [w |-> JUndef, v |-> JNum(42), f |-> JUndef, t |-> JStr(<<"n">>), s |-> None]
\* a formula cell whose result is the number 0, without formatted text
CellZero ==
    [w |-> JUndef, v |-> JNum(0), f |-> JStr(<<"B", "1", "-", "B", "1">>),
     t |-> JUndef, s |-> Some(StyleIndexed)]

SheetData1 ==
    [ref |-> Some([r |-> 1, c |-> 1]),
     cells |-> (<<0, 0>> :> CellNumber) @@ (<<0, 1>> :> CellFormula) @@
               (<<1, 0>> :> CellRaw)]
SheetEmpty ==
    [ref |-> None, cells |-> <<>>]
SheetCalc ==
    [ref |-> Some([r |-> 0, c |-> 1]),
     cells |-> (<<0, 0>> :> CellZero) @@ (<<0, 1>> :> CellNumber)]

Book1 == [SheetNames |-> <<"Data">>, Sheets |-> [x \in {"Data"} |-> SheetData1]]
Book2 ==
    [SheetNames |-> <<"Empty", "Calc">>,
     Sheets |-> ("Empty" :> SheetEmpty) @@ ("Calc" :> SheetCalc)]
NoBook == [SheetNames |-> <<>>, Sheets |-> <<>>]

\* fails: "none", "read" (file.arrayBuffer() rejects) or "parse" (XLSX.read throws)
Files ==
    ("one.xlsx" :> [fails |-> "none", workbook |-> Book1, message |-> <<>>]) @@
    ("two.xlsx" :> [fails |-> "none", workbook |-> Book2, message |-> <<>>]) @@
    ("corrupt.xlsx" :> [fails |-> "parse", workbook |-> NoBook,
                        message |-> <<"Unsupported file">>]) @@
    ("gone.xlsx" :> [fails |-> "read", workbook |-> NoBook,
                     message |-> <<"The requested file could not be read">>])

FileNames == DOMAIN Files

-----------------------------------------------------------------------------
(* SimpleExcelViewer.loadExcelFile: the conversion of a parsed workbook.   *)

\* XLSX.utils.decode_range(worksheet['!ref'] || 'A1:A1').e
RangeEnd(worksheet) ==
    IF Has(worksheet.ref) THEN Get(worksheet.ref) ELSE [r |-> 0, c |-> 0]

\* the cell matrix of one worksheet: rows of records, none missing
CellMatrix(worksheet) ==
    LET rows == RangeEnd(worksheet).r + 1
        cols == RangeEnd(worksheet).c + 1
    IN [row \in 1..rows |->
          Some([col \in 1..cols |->
                  IF <<row - 1, col - 1>> \in DOMAIN worksheet.cells
                  THEN Some(CellRecord(worksheet.cells[<<row - 1, col - 1>>]))
                  ELSE Some(DefaultRecord(JStr(<<>>)))])]

\* workbook.SheetNames.map(...)
SheetsData(workbook) ==
    [i \in 1..Len(workbook.SheetNames) |->
        [name |-> workbook.SheetNames[i],
         data |-> CellMatrix(workbook.Sheets[workbook.SheetNames[i]])]]

\* the message set by the catch block
LoadErrorMessage(file) == JStr(<<"Error loading Excel file: ">> \o file.message)

-----------------------------------------------------------------------------
(* SimpleExcelViewer: rendering.                                           *)

MinRows == 20
MinCols == 10

\* render gates that return the grid before looking at error
ViewGridFirst ==
    IF isLoading THEN "loading"
    ELSE IF Len(sheets) # 0 THEN "grid"
    ELSE IF Truthy(error) THEN "error"
    ELSE "none"

\* which of the component's four returns is rendered
View ==
    IF isLoading THEN "loading"
    ELSE IF Truthy(error) THEN "error"
    ELSE IF Len(sheets) = 0 THEN "none"
    ELSE "grid"

\* sheets[activeSheetIndex]
activeSheet == sheets[activeSheetIndex + 1]

\* Math.max(activeSheet.data.length, 20)
maxRows(sheet) == Max2(Len(sheet.data), MinRows)

RECURSIVE MaxLength(_, _)
\* the largest row.length of rows 1..k of data
MaxLength(data, k) ==
    IF k = 0 THEN 0
    ELSE Max2(IF Has(data[k]) THEN Len(Get(data[k])) ELSE 0, MaxLength(data, k - 1))

\* Math.max(...data.map(row => row.length), 10) is NaN when data has a hole:
\* map keeps the hole, the spread reads it as undefined
maxColsIsNaN(sheet) == \E k \in 1..Len(sheet.data) : ~Has(sheet.data[k])

\* the number of columns Array.from({ length: maxCols }) renders (none for NaN)
maxCols(sheet) ==
    IF maxColsIsNaN(sheet) THEN 0
    ELSE Max2(MaxLength(sheet.data, Len(sheet.data)), MinCols)

\* activeSheet.data[rowIndex] && activeSheet.data[rowIndex][colIndex]
CellAt(sheet, rowIndex, colIndex) ==
    IF rowIndex + 1 \in 1..Len(sheet.data) /\ Has(sheet.data[rowIndex + 1])
    THEN LET row == Get(sheet.data[rowIndex + 1]) IN
         IF colIndex + 1 \in 1..Len(row) THEN row[colIndex + 1] ELSE None
    ELSE None

\* a getCellDisplayValue that never looks at showFormulas
DisplayValueOnly(show, cell) ==
    IF ~Has(cell) THEN <<>> ELSE String(Or(Get(cell).value, JStr(<<>>)))

\* getCellDisplayValue under a given showFormulas
DisplayValue(show, cell) ==
    IF ~Has(cell) THEN <<>>
    ELSE IF show /\ Truthy(Get(cell).formula)
         THEN <<"=">> \o String(Get(cell).formula)
         ELSE String(Or(Get(cell).value, JStr(<<>>)))

getCellDisplayValue(cell) == DisplayValue(showFormulas, cell)

-----------------------------------------------------------------------------
(* SimpleExcelViewer: operations.                                          *)

\* afterError: the load was started while the message of a failed load was shown
NoOp == [op |-> "none", file |-> "", afterError |-> FALSE, r |-> 0, c |-> 0, v |-> JUndef]

\* arr[i] = x on an array with holes (i is zero-based)
SetAt(arr, i, x) ==
    [k \in 1..Max2(Len(arr), i + 1) |->
        IF k = i + 1 THEN Some(x)
        ELSE IF k <= Len(arr) THEN arr[k] ELSE None]

\* a handleCellChange that always stores a fresh default record
ChangedDataFresh(data, rowIndex, colIndex, value) ==
    LET data1 == IF rowIndex + 1 \in 1..Len(data) /\ Has(data[rowIndex + 1])
                 THEN data ELSE SetAt(data, rowIndex, <<>>)
        row == Get(data1[rowIndex + 1])
    IN SetAt(data1, rowIndex, SetAt(row, colIndex, DefaultRecord(value)))

\* the active sheet's data after handleCellChange(rowIndex, colIndex, value)
ChangedData(data, rowIndex, colIndex, value) ==
    LET data1 == IF rowIndex + 1 \in 1..Len(data) /\ Has(data[rowIndex + 1])
                 THEN data ELSE SetAt(data, rowIndex, <<>>)
        row == Get(data1[rowIndex + 1])
        existingCell == IF colIndex + 1 \in 1..Len(row) THEN row[colIndex + 1] ELSE None
        newCell == IF Has(existingCell)
                   THEN [Get(existingCell) EXCEPT !.value = value]
                   ELSE DefaultRecord(value)
    IN SetAt(data1, rowIndex, SetAt(row, colIndex, newCell))

\* App.handleFileSelect, then the viewer's effect on the new file prop: the
\* part of loadExcelFile before its await
handleFileSelect(name) ==
    /\ selectedFile' = Some(name)
    /\ nSelected' = nSelected + 1
    /\ isLoading' = TRUE
    /\ error' = JNull
    /\ inFlight' = inFlight \cup {[id |-> nSelected + 1, file |-> name,
                                   afterError |-> View = "error"]}
    /\ lastOp' = [NoOp EXCEPT !.op = "select", !.file = name]
    /\ UNCHANGED <<sheets, activeSheetIndex, showFormulas, nEdits>>

\* a load that keeps the sheet index of the workbook shown before
KeptActiveSheetIndex == activeSheetIndex

\* setActiveSheetIndex(0) at the end of the try body
LoadedActiveSheetIndex == 0

\* loadExcelFile after its await: the try body, the catch and the finally
loadExcelFile(load) ==
    /\ load \in inFlight
    /\ inFlight' = inFlight \ {load}
    /\ IF Files[load.file].fails = "none"
       THEN /\ sheets' = SheetsData(Files[load.file].workbook)
            /\ activeSheetIndex' = LoadedActiveSheetIndex
            /\ error' = error
            /\ lastOp' = [NoOp EXCEPT !.op = "loaded", !.file = load.file,
                                       !.afterError = load.afterError]
       ELSE /\ error' = LoadErrorMessage(Files[load.file])
            /\ UNCHANGED <<sheets, activeSheetIndex>>
            /\ lastOp' = [NoOp EXCEPT !.op = "failed", !.file = load.file,
                                       !.afterError = load.afterError]
    /\ isLoading' = FALSE
    /\ UNCHANGED <<selectedFile, showFormulas, nSelected, nEdits>>

\* a sheet tab's onClick
setActiveSheetIndex(i) ==
    /\ View = "grid"
    /\ Len(sheets) > 1
    /\ i \in 0..(Len(sheets) - 1)
    /\ activeSheetIndex' = i
    /\ lastOp' = [NoOp EXCEPT !.op = "tab", !.r = i]
    /\ UNCHANGED <<selectedFile, sheets, isLoading, error, showFormulas,
                   inFlight, nSelected, nEdits>>

\* setShowFormulas(!showFormulas)
ToggledShow(show) == ~show

\* the formula toggle's onClick
toggleFormulas ==
    /\ View = "grid"
    /\ showFormulas' = ToggledShow(showFormulas)
    /\ lastOp' = [NoOp EXCEPT !.op = "toggle"]
    /\ UNCHANGED <<selectedFile, sheets, activeSheetIndex, isLoading, error,
                   inFlight, nSelected, nEdits>>

\* a rendered cell input's onChange
handleCellChange(rowIndex, colIndex, value) ==
    /\ View = "grid"
    /\ nEdits < MaxEdits
    /\ rowIndex < maxRows(activeSheet)
    /\ colIndex < maxCols(activeSheet)
    /\ sheets' = [sheets EXCEPT ![activeSheetIndex + 1].data =
                      ChangedData(@, rowIndex, colIndex, value)]
    /\ nEdits' = nEdits + 1
    /\ lastOp' = [NoOp EXCEPT !.op = "edit", !.r = rowIndex, !.c = colIndex, !.v = value]
    /\ UNCHANGED <<selectedFile, activeSheetIndex, isLoading, error, showFormulas,
                   inFlight, nSelected>>

\* the edits made: typing into and clearing the first cell, typing into the
\* cell right of it (a formula cell, or just outside a one-column matrix),
\* into a cell of the second row and into the first cell of the third row
\* (below the matrix, and past a missing row under a one-row matrix)
EditInputs ==
    {[r |-> 0, c |-> 0, v |-> <<"x">>], [r |-> 0, c |-> 0, v |-> <<>>],
     [r |-> 0, c |-> 1, v |-> <<"x">>], [r |-> 1, c |-> 1, v |-> <<"x">>],
     [r |-> 2, c |-> 0, v |-> <<"x">>]}

\* the viewer as mounted, before any file is selected
SvInit ==
    /\ selectedFile = None
    /\ sheets = <<>>
    /\ activeSheetIndex = 0
    /\ isLoading = FALSE
    /\ error = JNull
    /\ showFormulas = FALSE
    /\ inFlight = {}
    /\ nSelected = 0
    /\ nEdits = 0
    /\ lastOp = NoOp

-----------------------------------------------------------------------------
(* getColumnLabel, one loop iteration per step.                            *)

Letters ==
    <<"A", "B", "C", "D", "E", "F", "G", "H", "I", "J", "K", "L", "M",
      "N", "O", "P", "Q", "R", "S", "T", "U", "V", "W", "X", "Y", "Z">>

Radix == 26

\* String.fromCharCode(65 + code), for the codes of A..Z
fromCharCode(code) == Letters[code + 1]

\* num after one iteration: Math.floor(num / 26) - 1
NextNum(x) == (x \div Radix) - 1

\* an iteration that appends the letter instead of prepending it
NextLabelAppended(x, lab) == lab \o <<fromCharCode(x % Radix)>>

\* label after one iteration
NextLabel(x, lab) == <<fromCharCode(x % Radix)>> \o lab

RECURSIVE LabelLoop(_, _)
\* the while loop, from num = x and label = lab to its exit
LabelLoop(x, lab) ==
    IF x >= 0 THEN LabelLoop(NextNum(x), NextLabel(x, lab)) ELSE lab

\* getColumnLabel(i) as a value
getColumnLabel(i) == LabelLoop(i, <<>>)

\* no call of getColumnLabel is being stepped
LabelIdle == index = 0 /\ num = 0 /\ label = <<>>

\* a call getColumnLabel(index) enters its loop
LabelInit == index \in 0..MaxIndex /\ num = index /\ label = <<>>

\* one iteration of while (num >= 0)
LabelStep ==
    /\ num >= 0
    /\ label' = NextLabel(num, label)
    /\ num' = NextNum(num)
    /\ UNCHANGED index

\* the loop has exited and label is returned
LabelDone == num < 0

-----------------------------------------------------------------------------
(* ExcelViewer (the rich-grid viewer).                                     *)

XvMinRows == 20
XvMinCols == 10

\* XLSX.utils.sheet_to_json(worksheet, { header: 1, defval: '', raw: false }):
\* the rows of the sheet's range as formatted texts, '' where no cell is stored
sheet_to_json(worksheet) ==
    IF ~Has(worksheet.ref) THEN <<>>
    ELSE [row \in 1..(Get(worksheet.ref).r + 1) |->
            [col \in 1..(Get(worksheet.ref).c + 1) |->
                IF <<row - 1, col - 1>> \in DOMAIN worksheet.cells
                THEN LET cell == worksheet.cells[<<row - 1, col - 1>>] IN
                     IF cell.w.k = "str" THEN cell.w.s ELSE String(cell.v)
                ELSE <<>>]]

RECURSIVE MaxRowLength(_, _)
MaxRowLength(data, k) ==
    IF k = 0 THEN 0 ELSE Max2(Len(data[k]), MaxRowLength(data, k - 1))

\* Math.max(...data.map(row => row.length), 0)
getMaxColumns(data) == MaxRowLength(data, Len(data))

\* the celldata entries (r, c and the text) of the non-empty cells
convertToLuckysheetData(data) ==
    {[r |-> row - 1, c |-> col - 1, v |-> data[row][col]] :
        <<row, col>> \in {rc \in (1..Len(data)) \X (1..getMaxColumns(data)) :
                            /\ rc[2] <= Len(data[rc[1]])
                            /\ data[rc[1]][rc[2]] # <<>>}}

\* the sheet entries handed to initializeLuckysheet
LuckysheetSheets(workbook) ==
    [i \in 1..Len(workbook.SheetNames) |->
        LET data == sheet_to_json(workbook.Sheets[workbook.SheetNames[i]]) IN
        [name |-> workbook.SheetNames[i],
         data |-> convertToLuckysheetData(data),
         status |-> IF i = 1 THEN 1 ELSE 0,
         order |-> i - 1,
         row |-> Max2(Len(data), XvMinRows),
         column |-> Max2(getMaxColumns(data), XvMinCols)]]

\* whether the rendered output holds the container div (neither the loading
\* nor the error return)
XvContainerRendered == ~xvIsLoading /\ ~Truthy(xvError)

\* the viewer as mounted: the first render holds the container
XvIdle ==
    /\ xvFile = None /\ xvIsLoading = FALSE /\ xvError = JNull /\ debugInfo = <<>>
    /\ luckysheetRef = TRUE /\ windowLuckysheet = TRUE /\ xvInFlight = {}
    /\ timers = <<>> /\ created = <<>> /\ xvSelected = 0 /\ xvLast = NoOp

XvInit ==
    /\ xvFile = None /\ xvIsLoading = FALSE /\ xvError = JNull /\ debugInfo = <<>>
    /\ luckysheetRef = TRUE /\ windowLuckysheet \in BOOLEAN /\ xvInFlight = {}
    /\ timers = <<>> /\ created = <<>> /\ xvSelected = 0 /\ xvLast = NoOp

\* a new file prop: the effect runs loadExcelFile up to its await
XvSelect(name) ==
    /\ xvSelected < MaxSelections
    /\ xvFile' = Some(name)
    /\ xvSelected' = xvSelected + 1
    /\ debugInfo' = <<"Starting file processing...">>
    /\ xvLast' = [NoOp EXCEPT !.op = "select", !.file = name]
    /\ IF ~windowLuckysheet
       THEN /\ xvError' = JStr(<<"Luckysheet library is not loaded. Please refresh the page.">>)
            /\ xvIsLoading' = FALSE
            /\ UNCHANGED xvInFlight
       ELSE /\ xvError' = JNull
            /\ xvIsLoading' = TRUE
            /\ xvInFlight' = xvInFlight \cup {[id |-> xvSelected + 1, file |-> name]}
    /\ UNCHANGED <<luckysheetRef, windowLuckysheet, timers, created>>

\* React commits the render of the current state: the container's ref is
\* attached when the container is rendered and reset to null when it is not.
\* The commit is a step of its own: the code fixes no order between it and
\* the resolution of file.arrayBuffer() or the firing of a timer.
XvRender ==
    /\ luckysheetRef # XvContainerRendered
    /\ luckysheetRef' = XvContainerRendered
    /\ UNCHANGED <<xvFile, xvIsLoading, xvError, debugInfo, windowLuckysheet,
                   xvInFlight, timers, created, xvSelected, xvLast>>

\* loadExcelFile after its await, with the initializeLuckysheet call
XvLoadExcelFile(load) ==
    /\ load \in xvInFlight
    /\ xvInFlight' = xvInFlight \ {load}
    /\ xvIsLoading' = FALSE
    /\ CASE Files[load.file].fails = "read" ->
              /\ xvError' = LoadErrorMessage(Files[load.file])
              /\ xvLast' = [NoOp EXCEPT !.op = "failed", !.file = load.file]
              /\ UNCHANGED <<debugInfo, timers>>
         [] Files[load.file].fails = "parse" ->
              /\ xvError' = LoadErrorMessage(Files[load.file])
              /\ debugInfo' = <<"File read successfully, parsing Excel...">>
              /\ xvLast' = [NoOp EXCEPT !.op = "failed", !.file = load.file]
              /\ UNCHANGED timers
         [] OTHER ->
              /\ debugInfo' = <<"Initializing Luckysheet...">>
              /\ xvLast' = [NoOp EXCEPT !.op = "converted", !.file = load.file]
              /\ IF luckysheetRef /\ windowLuckysheet
                 THEN /\ timers' = Append(timers, LuckysheetSheets(Files[load.file].workbook))
                      /\ UNCHANGED xvError
                 ELSE /\ xvError' = JStr(<<"Luckysheet container or library not available">>)
                      /\ UNCHANGED timers
    /\ UNCHANGED <<xvFile, luckysheetRef, windowLuckysheet, created, xvSelected>>

\* the callback deferred by setTimeout: window.luckysheet.create, which
\* returns or throws
XvCreate(throws) ==
    /\ timers # <<>>
    /\ timers' = Tail(timers)
    /\ xvLast' = [NoOp EXCEPT !.op = "timer"]
    /\ IF throws
       THEN /\ xvError' = JStr(<<"Failed to initialize spreadsheet viewer: ", "create failed">>)
            /\ UNCHANGED <<created, debugInfo>>
       ELSE /\ created' = Append(created, [container |-> luckysheetRef, data |-> Head(timers)])
            /\ debugInfo' = <<"Luckysheet initialized successfully!">>
            /\ UNCHANGED xvError
    /\ UNCHANGED <<xvFile, xvIsLoading, luckysheetRef, windowLuckysheet,
                   xvInFlight, xvSelected>>

-----------------------------------------------------------------------------
(* Specifications.                                                         *)

Init == SvInit /\ LabelIdle /\ XvIdle

Next ==
    \/ \E name \in FileNames :
          nSelected < MaxSelections /\ handleFileSelect(name) /\ UNCHANGED <<labelVars, xvVars>>
    \/ \E load \in inFlight : loadExcelFile(load) /\ UNCHANGED <<labelVars, xvVars>>
    \/ \E i \in 0..1 : setActiveSheetIndex(i) /\ UNCHANGED <<labelVars, xvVars>>
    \/ toggleFormulas /\ UNCHANGED <<labelVars, xvVars>>
    \/ \E e \in EditInputs :
          handleCellChange(e.r, e.c, JStr(e.v)) /\ UNCHANGED <<labelVars, xvVars>>

\* the grid-table viewer under every interleaving of file selections, load
\* completions and the grid's events
Spec == Init /\ [][Next]_vars

NextLate ==
    \/ \E name \in FileNames :
          nSelected < MaxLateSelections /\ handleFileSelect(name)
          /\ UNCHANGED <<labelVars, xvVars>>
    \/ \E load \in inFlight : loadExcelFile(load) /\ UNCHANGED <<labelVars, xvVars>>
    \/ \E i \in 0..1 : setActiveSheetIndex(i) /\ UNCHANGED <<labelVars, xvVars>>
    \/ toggleFormulas /\ UNCHANGED <<labelVars, xvVars>>
    \/ \E e \in EditInputs :
          handleCellChange(e.r, e.c, JStr(e.v)) /\ UNCHANGED <<labelVars, xvVars>>

\* the grid-table viewer over runs long enough for a file to be selected
\* after a failed load while a further load overlaps it
SpecLate == Init /\ [][NextLate]_vars

InitLabel == SvInit /\ LabelInit /\ XvIdle

NextLabelCall == LabelStep /\ UNCHANGED <<appVars, svVars, xvVars>>

\* one call of getColumnLabel; the loop runs on while its condition holds
SpecLabel == InitLabel /\ [][NextLabelCall]_vars /\ WF_vars(NextLabelCall)

InitXv == SvInit /\ LabelIdle /\ XvInit

NextXv ==
    \/ \E name \in FileNames : XvSelect(name) /\ UNCHANGED <<appVars, svVars, labelVars>>
    \/ XvRender /\ UNCHANGED <<appVars, svVars, labelVars>>
    \/ \E load \in xvInFlight : XvLoadExcelFile(load) /\ UNCHANGED <<appVars, svVars, labelVars>>
    \/ \E throws \in BOOLEAN : XvCreate(throws) /\ UNCHANGED <<appVars, svVars, labelVars>>

\* the rich-grid viewer
SpecXv == InitXv /\ [][NextXv]_vars

-----------------------------------------------------------------------------
(* Properties of the grid-table viewer.                                    *)

\* the cells of a sheet's matrix, with one row below and one column right of it
Cells(sheet) ==
    (0..Len(sheet.data)) \X (0..MaxLength(sheet.data, Len(sheet.data)))

\* the text a cell is to show under a formula-display mode: '=' and the
\* formula for a formula cell when formulas are shown, its value otherwise
ShownText(show, cell) ==
    IF ~Has(cell) THEN <<>>
    ELSE IF show /\ Get(cell).formula.k = "str"
         THEN <<"=">> \o Get(cell).formula.s
         ELSE String(Get(cell).value)

\* C1: a click on the formula toggle changes no cell record and flips the
\* mode; before and after it every cell shows its value when formulas are
\* hidden and '=' followed by its formula when they are shown and it has
\* one; a cell without a formula shows the same text before and after; and
\* one more toggle would show every cell's text from before the click.
C1_ToggleSwapsDisplay ==
    [][lastOp'.op = "toggle" =>
        /\ sheets' = sheets
        /\ showFormulas' # showFormulas
        /\ \A i \in 1..Len(sheets) : \A rc \in Cells(sheets[i]) :
             LET cell == CellAt(sheets[i], rc[1], rc[2]) IN
             /\ getCellDisplayValue(cell) = ShownText(showFormulas, cell)
             /\ getCellDisplayValue(cell)' = ShownText(showFormulas', cell)
             /\ (Has(cell) /\ Get(cell).formula.k # "str")
                   => getCellDisplayValue(cell)' = getCellDisplayValue(cell)
             /\ DisplayValue(ToggledShow(showFormulas'), cell) = getCellDisplayValue(cell)
    ]_vars

\* C1 witness: formulas have just been switched on and a formula cell of the
\* active sheet shows '=' and its formula instead of its value
C1_Witness ==
    /\ lastOp.op = "toggle" /\ showFormulas /\ View = "grid"
    /\ \E rc \in Cells(activeSheet) :
         LET cell == CellAt(activeSheet, rc[1], rc[2]) IN
         /\ Has(cell) /\ Truthy(Get(cell).formula)
         /\ getCellDisplayValue(cell) = <<"=", "A", "1", "+", "2">>
         /\ DisplayValue(FALSE, cell) = <<"7">>

\* the presentation attributes of a cell record, all but its value
Attributes(rec) ==
    <<rec.formula, rec.type, rec.style, rec.backgroundColor, rec.textColor,
      rec.isBold, rec.isItalic, rec.fontSize, rec.fontFamily, rec.alignment,
      rec.border>>

\* C2: handleCellChange(rowIndex, colIndex, value) leaves the attributes
\* of the record at (rowIndex, colIndex) as they were, leaves every other
\* cell of the active sheet and every other sheet as it was, and changes
\* neither activeSheetIndex nor showFormulas.
C2_EditFrame ==
    [][lastOp'.op = "edit" =>
        LET a == activeSheetIndex + 1
            old == CellAt(sheets[a], lastOp'.r, lastOp'.c)
            new == CellAt(sheets'[a], lastOp'.r, lastOp'.c)
        IN /\ activeSheetIndex' = activeSheetIndex
           /\ showFormulas' = showFormulas
           /\ Len(sheets') = Len(sheets)
           /\ \A i \in 1..Len(sheets) : i # a => sheets'[i] = sheets[i]
           /\ sheets'[a].name = sheets[a].name
           /\ Has(new)
           /\ Has(old) => Attributes(Get(new)) = Attributes(Get(old))
           /\ \A rc \in Cells(sheets'[a]) :
                rc # <<lastOp'.r, lastOp'.c>>
                   => CellAt(sheets'[a], rc[1], rc[2]) = CellAt(sheets[a], rc[1], rc[2])
    ]_vars

\* C2 witness: a styled formula cell has been edited and still has its
\* formula and its style beside the typed value
C2_Witness ==
    /\ lastOp.op = "edit" /\ View = "grid"
    /\ LET cell == CellAt(activeSheet, lastOp.r, lastOp.c) IN
       /\ Has(cell)
       /\ Get(cell).value = JStr(<<"x">>)
       /\ Truthy(Get(cell).formula)
       /\ Has(Get(cell).style)
       /\ Get(cell).isBold = JBool(TRUE)

\* C3: when a load has just failed (reading or parsing threw), isLoading is
\* false, error is 'Error loading Excel file: ' followed by the failure's
\* message, and the viewer renders the error message.
C3_FailedLoadShowsError ==
    lastOp.op = "failed" =>
        /\ ~isLoading
        /\ error.k = "str"
        /\ error.s = <<"Error loading Excel file: ">> \o Files[lastOp.file].message
        /\ View = "error"

\* C3 witness: a corrupt file selected while a workbook was shown has just
\* failed to parse
C3_Witness ==
    /\ lastOp.op = "failed" /\ Files[lastOp.file].fails = "parse"
    /\ Len(sheets) > 0 /\ View = "error"

\* C4 as claimed: when a load has just succeeded, sheets holds one entry per
\* sheet name in workbook order, isLoading is false, error is null, every
\* matrix is rectangular with (last row + 1) rows of (last column + 1)
\* records, and the grid is rendered with max(rows, 20) rows and
\* max(columns, 10) columns.
C4_LoadedWorkbookRendered ==
    lastOp.op = "loaded" =>
        LET workbook == Files[lastOp.file].workbook IN
        /\ ~isLoading
        /\ error = JNull
        /\ Len(sheets) = Len(workbook.SheetNames)
        /\ \A i \in 1..Len(sheets) :
             LET e == RangeEnd(workbook.Sheets[workbook.SheetNames[i]])
                 data == sheets[i].data
             IN /\ sheets[i].name = workbook.SheetNames[i]
                /\ Len(data) = e.r + 1
                /\ \A r \in 1..Len(data) :
                     /\ Has(data[r])
                     /\ Len(Get(data[r])) = e.c + 1
                     /\ \A c \in 1..Len(Get(data[r])) : Has(Get(data[r])[c])
        /\ View = "grid"
        /\ maxRows(activeSheet) = Max2(Len(activeSheet.data), MinRows)
        /\ maxCols(activeSheet) =
              Max2(RangeEnd(workbook.Sheets[workbook.SheetNames[activeSheetIndex + 1]]).c + 1,
                   MinCols)

\* C5 as claimed: at most one load is in flight at any moment, and isLoading
\* is true whenever a load is in flight.
C5_OneLoadInFlight ==
    /\ Cardinality(inFlight) <= 1
    /\ inFlight # {} => isLoading

\* C7 as claimed: after handleCellChange(rowIndex, colIndex, value) the input
\* of that cell is rendered and shows the typed value.
C7_EditedCellShowsTypedValue ==
    lastOp.op = "edit" =>
        /\ View = "grid"
        /\ lastOp.r < maxRows(activeSheet)
        /\ lastOp.c < maxCols(activeSheet)
        /\ getCellDisplayValue(CellAt(activeSheet, lastOp.r, lastOp.c)) = String(lastOp.v)

\* C9: whenever the grid is rendered, activeSheetIndex is an index of sheets.
C9_ActiveSheetIndexValid ==
    View = "grid" => activeSheetIndex \in 0..(Len(sheets) - 1)

\* C9 witness: the grid shows the second sheet of a workbook while the load
\* of a one-sheet workbook is in flight
C9_Witness ==
    /\ View = "grid" /\ activeSheetIndex = 1
    /\ \E load \in inFlight :
         /\ Files[load.file].fails = "none"
         /\ Len(Files[load.file].workbook.SheetNames) = 1

\* C10 as claimed: isLoading stays true while the load of the most recently
\* selected file is in flight, and when the last load in flight completes,
\* sheets and error are those of the most recently selected file.
C10_LatestFileWins ==
    /\ (\E load \in inFlight : load.id = nSelected) => isLoading
    /\ (lastOp.op \in {"loaded", "failed"} /\ inFlight = {}) =>
          LET file == Files[Get(selectedFile)] IN
          /\ ~isLoading
          /\ IF file.fails = "none"
             THEN error = JNull /\ sheets = SheetsData(file.workbook)
             ELSE error = LoadErrorMessage(file)

-----------------------------------------------------------------------------
(* Properties of getColumnLabel.                                           *)

RECURSIVE ColumnNumber(_)
\* the one-based column number a label over A..Z denotes in bijective base 26
ColumnNumber(lab) ==
    IF lab = <<>> THEN 0
    ELSE LET last == lab[Len(lab)]
             digit == CHOOSE d \in 1..Radix : Letters[d] = last
         IN ColumnNumber(SubSeq(lab, 1, Len(lab) - 1)) * Radix + digit

RECURSIVE LexLess(_, _)
\* alphabetical order of two labels of one length
LexLess(a, b) ==
    /\ a # <<>>
    /\ LET x == CHOOSE d \in 1..Radix : Letters[d] = a[1]
           y == CHOOSE d \in 1..Radix : Letters[d] = b[1]
       IN x < y \/ (x = y /\ LexLess(Tail(a), Tail(b)))

\* spreadsheet column order: shorter labels first, then alphabetical
ColumnOrder(a, b) ==
    Len(a) < Len(b) \/ (Len(a) = Len(b) /\ LexLess(a, b))

\* what a finished call getColumnLabel(index) has returned
LabelCorrect ==
    LabelDone =>
        /\ \A k \in 1..Len(label) : \E d \in 1..Radix : Letters[d] = label[k]
        /\ ColumnNumber(label) = index + 1
        /\ index <= 25 => label = <<Letters[index + 1]>>
        /\ index = 26 => label = <<"A", "A">>
        /\ index = 701 => label = <<"Z", "Z">>
        /\ index = 702 => label = <<"A", "A", "A">>
        /\ \A j \in 0..MaxIndex : j # index => getColumnLabel(j) # label
        /\ index > 0 => ColumnOrder(getColumnLabel(index - 1), label)

\* C8: every call getColumnLabel(index), index >= 0, leaves its loop, and
\* the label it returns is the bijective base-26 numeral over A..Z of
\* index + 1 ('A'..'Z' for 0..25, 'AA' for 26, 'ZZ' for 701, 'AAA' for 702),
\* differs from the label of every other index and follows the label of
\* index - 1 in spreadsheet column order.
C8_ColumnLabel == []LabelCorrect /\ <>LabelDone

\* C8 witness: the call for index 702 has returned 'AAA'
C8_Witness == LabelDone /\ index = 702 /\ label = <<"A", "A", "A">>

-----------------------------------------------------------------------------
(* Properties of the rich-grid viewer.                                     *)

\* C6 as claimed: when the library is present and a load has just read,
\* parsed and converted its file, no error is set and the create call has
\* been deferred with one sheet entry per workbook sheet.
C6_SheetsHandedToWidget ==
    (xvLast.op = "converted" /\ windowLuckysheet) =>
        /\ ~Truthy(xvError)
        /\ timers # <<>>
        /\ Len(timers[Len(timers)]) = Len(Files[xvLast.file].workbook.SheetNames)

-----------------------------------------------------------------------------
(* Failed loads of the grid-table viewer.                                  *)

\* C11 as claimed: a load that fails changes neither sheets nor
\* activeSheetIndex (nor showFormulas), only error and isLoading; every
\* load starts by clearing error; and a load started while the message of a
\* failed load was shown that succeeds ends with error null, isLoading
\* false and the grid of its file rendered.
C11_FailedLoadNotSticky ==
    [][/\ lastOp'.op = "failed" =>
            /\ sheets' = sheets
            /\ activeSheetIndex' = activeSheetIndex
            /\ showFormulas' = showFormulas
            /\ selectedFile' = selectedFile
       /\ lastOp'.op = "select" => error' = JNull
       /\ (lastOp'.op = "loaded" /\ lastOp'.afterError) =>
            /\ error' = JNull
            /\ ~isLoading'
            /\ View' = "grid"
            /\ sheets' = SheetsData(Files[lastOp'.file].workbook)
    ]_vars

====
